---- MODULE Spec2Model ----
(***************************************************************************)
(* A model of scipy/sparse/dia.py: the dia_matrix class (sparse matrix     *)
(* with DIAgonal storage).  One behaviour is the life of one object: the   *)
(* constructor call, then any number of calls of its methods.              *)
(*                                                                         *)
(* numpy arrays are records [shape, flat, dtype]: shape is the tuple of    *)
(* dimensions and flat the elements in row-major order, so that rank,      *)
(* empty dimensions and slicing behave as they do in numpy.  An array of   *)
(* dtype "i" holds integers; an array of dtype "d" holds floats, each      *)
(* written as its number of halves (3 stands for 1.5).                     *)
(***************************************************************************)
EXTENDS Integers, Sequences, FiniteSets, TLC

VARIABLES self, call, ret

vars == <<self, call, ret>>

\* ---------------------------------------------------------------- bounds
\* rows and cols range over 0..MaxDim
MaxDim == 2
\* offsets range over -MaxOff..MaxOff
MaxOff == 2
\* at most MaxK diagonals are passed to the constructor
MaxK == 2
\* the strip width L ranges over 0..MaxL
MaxL == 3

Offsets == (0 - MaxOff)..MaxOff
Dims == 0..MaxDim

\* ------------------------------------------------------- numpy primitives
Max2(a, b) == IF a >= b THEN a ELSE b
Min2(a, b) == IF a <= b THEN a ELSE b
Min3(a, b, c) == Min2(a, Min2(b, c))

RECURSIVE Prod(_)
Prod(s) == IF Len(s) = 0 THEN 1 ELSE Head(s) * Prod(Tail(s))

\* numpy.zeros(shape)
zeros(shape) == [shape |-> shape, flat |-> [n \in 1..Prod(shape) |-> 0], dtype |-> "i"]

ndim(a) == Len(a.shape)

\* len(a): the first dimension
len(a) == a.shape[1]

\* a[i, c] of a rank-2 array, indices from 0
At2(a, i, c) == a.flat[i * a.shape[2] + c + 1]

\* numpy.atleast_2d: a scalar becomes (1,1), a vector of n becomes (1,n)
atleast_2d(a) ==
    CASE ndim(a) = 0 -> [a EXCEPT !.shape = <<1, 1>>]
      [] ndim(a) = 1 -> [a EXCEPT !.shape = <<1, a.shape[1]>>]
      [] OTHER -> a

\* numpy.atleast_1d: a scalar becomes a vector of 1
atleast_1d(a) ==
    IF ndim(a) = 0 THEN [a EXCEPT !.shape = <<1>>] ELSE a

\* conversion of a float, given in halves, to a C int: truncation toward zero
Trunc(h) == IF h >= 0 THEN h \div 2 ELSE 0 - ((0 - h) \div 2)

\* numpy.array(a, dtype='i'): integers are kept, floats are truncated
array_intc(a) ==
    IF a.dtype = "i" THEN a
    ELSE [shape |-> a.shape, flat |-> [n \in 1..Len(a.flat) |-> Trunc(a.flat[n])], dtype |-> "i"]

\* numpy.unique(a): the distinct values
unique(a) == {a.flat[n] : n \in 1..Len(a.flat)}

\* The bounds of the slice a[lo:hi] of a dimension of n elements: a negative
\* bound counts from the end, and both are clipped to 0..n.
SliceBound(n, b) == IF b < 0 THEN Max2(0, b + n) ELSE Min2(b, n)
SliceLo(n, lo, hi) == SliceBound(n, lo)
SliceLen(n, lo, hi) == Max2(0, SliceBound(n, hi) - SliceBound(n, lo))

\* ------------------------------------------------------------- sputils
\* sputils.isintlike: a scalar whose value is an integer
isintlike(x) == ndim(x) = 0 /\ (x.dtype = "i" \/ x.flat[1] % 2 = 0)

\* the value of an integer-like scalar
IntOf(x) == IF x.dtype = "i" THEN x.flat[1] ELSE Trunc(x.flat[1])

\* sputils.isshape: a 2-tuple of integers
isshape(t) == Len(t) = 2 /\ isintlike(t[1]) /\ isintlike(t[2])

\* spmatrix.set_shape: the dimensions are non-negative integers
shape_ok(shape) == shape[1] >= 0 /\ shape[2] >= 0

\* sputils.isscalarlike
isscalarlike(x) == x.kind = "dense" /\ ndim(x.arr) = 0

\* base.isspmatrix
isspmatrix(x) == x.kind = "sparse"

\* ------------------------------------------------------------ results
Error(msg) == [kind |-> "error", msg |-> msg]
Instance(data, diags, shape) ==
    [kind |-> "instance", inst |-> [data |-> data, diags |-> diags, shape |-> shape]]

None == [given |-> FALSE]
Some(v) == [given |-> TRUE, val |-> v]

\* ------------------------------------------------------- dia_matrix.__init__
\* the format check without its test for duplicate offsets
check_format_nodup(data, diags, shape) ==
    IF ndim(diags) # 1 THEN Error("diags array must have rank 1")
    ELSE IF ndim(data) # 2 THEN Error("data array must have rank 2")
    ELSE IF data.shape[1] # len(diags)
         THEN Error("number of diagonals does not match the number of diags")
    ELSE Instance(data, diags, shape)

\* the format check that ends every construction path
check_format(data, diags, shape) ==
    IF ndim(diags) # 1 THEN Error("diags array must have rank 1")
    ELSE IF ndim(data) # 2 THEN Error("data array must have rank 2")
    ELSE IF data.shape[1] # len(diags)
         THEN Error("number of diagonals does not match the number of diags")
    ELSE IF Cardinality(unique(diags)) # len(diags)
         THEN Error("offset array contains duplicate values")
    ELSE Instance(data, diags, shape)

\* arg1 is a tuple of matrix dimensions (M, N): the empty matrix
init_shape(t) ==
    LET sh == <<IntOf(t[1]), IntOf(t[2])>>
    IN IF ~shape_ok(sh) THEN Error("invalid shape")
       ELSE check_format(zeros(<<0, 0>>), zeros(<<0>>), sh)

\* arg1 is (data, diags), with the shape argument
init_data(t, shape) ==
    IF Len(t) # 2 THEN Error("unrecognized form for dia_matrix constructor")
    ELSE IF ~shape.given THEN Error("expected a shape argument")
    ELSE IF ~shape_ok(shape.val) THEN Error("invalid shape")
    ELSE check_format(atleast_2d(t[1]), atleast_1d(array_intc(t[2])), shape.val)

init_tuple(t, shape) == IF isshape(t) THEN init_shape(t) ELSE init_data(t, shape)

\* arg1 is a dia_matrix: its fields are taken over.  Arrays are values here,
\* so a copy and a shared buffer are the same; nothing writes into a buffer.
init_dia(A, copy) == check_format(A.data, A.diags, A.shape)

dia_matrix(arg1, shape) ==
    IF arg1.tag = "dia" THEN init_dia(arg1.inst, arg1.copy)
    ELSE init_tuple(arg1.items, shape)

\* ------------------------------------------------------------ getnnz
RECURSIVE nnz_loop(_, _, _, _)
nnz_loop(M, N, diags, i) ==
    IF i > Len(diags) THEN 0
    ELSE LET k == diags[i]
         IN (IF k > 0 THEN Min2(M, N - k) ELSE Min2(M + k, N))
            + nnz_loop(M, N, diags, i + 1)

\* getnnz with every diagonal's length clipped to the strip width
RECURSIVE nnz_clipped_loop(_, _, _, _, _)
nnz_clipped_loop(M, N, L, diags, i) ==
    IF i > Len(diags) THEN 0
    ELSE LET k == diags[i]
         IN (IF k > 0 THEN Min3(M, N - k, L - k) ELSE Min3(M + k, N, L))
            + nnz_clipped_loop(M, N, L, diags, i + 1)

getnnz_clipped(A) == nnz_clipped_loop(A.shape[1], A.shape[2], A.data.shape[2], A.diags.flat, 1)

getnnz(A) == nnz_loop(A.shape[1], A.shape[2], A.diags.flat, 1)

\* ------------------------------------------------------------ matvec
\* One pass of the loop over the diagonals: diagonal number i (from 1) of A
\* is multiplied into temp and added to y.  ok is FALSE when numpy refuses
\* the multiply because its operands and its output do not fit.  win records
\* the pass: the bounds computed, the lengths of the three slices taken, and
\* the number of rows multiplied and added.
diag_step(A, x, y, i) ==
    LET k == A.diags.flat[i]
        M == A.shape[1]
        N == A.shape[2]
        L == A.data.shape[2]
        P == x.shape[2]
        j_start == Max2(0, k)
        j_end   == Min3(M + k, N, L)
        i_start == Max2(0, 0 - k)
        i_end   == i_start + (j_end - j_start)
        \* diag[j_start:j_end], x[j_start:j_end], temp[i_start:i_end]
        dlo  == SliceLo(L, j_start, j_end)
        dlen == SliceLen(L, j_start, j_end)
        xlo  == SliceLo(x.shape[1], j_start, j_end)
        xlen == SliceLen(x.shape[1], j_start, j_end)
        tlo  == SliceLo(M, i_start, i_end)
        tlen == SliceLen(M, i_start, i_end)
        \* (dlen,1) and (xlen,P) broadcast to (rows,P), which must be temp's shape
        fits == dlen = xlen \/ dlen = 1 \/ xlen = 1
        rows == IF dlen = 1 THEN xlen ELSE dlen
        ok   == fits /\ rows = tlen
        temp(t, p) == At2(A.data, i - 1, dlo + (IF dlen = 1 THEN 0 ELSE t))
                      * At2(x, xlo + (IF xlen = 1 THEN 0 ELSE t), p)
        r(n) == (n - 1) \div P
        c(n) == (n - 1) % P
    IN [ok |-> ok,
        y |-> IF ~ok THEN y
              ELSE [n \in 1..Len(y) |->
                      IF r(n) >= tlo /\ r(n) < tlo + tlen
                      THEN y[n] + temp(r(n) - tlo, c(n))
                      ELSE y[n]],
        win |-> [k |-> k, j_start |-> j_start, j_end |-> j_end,
                 i_start |-> i_start, i_end |-> i_end,
                 dlen |-> dlen, xlen |-> xlen, tlen |-> tlen,
                 fits |-> ok, nmul |-> IF ok THEN rows ELSE 0]]

RECURSIVE matvec_loop(_, _, _, _, _)
matvec_loop(A, x, y, i, wins) ==
    IF i > len(A.diags) THEN [ok |-> TRUE, y |-> y, wins |-> wins]
    ELSE LET s == diag_step(A, x, y, i)
         IN IF ~s.ok THEN [ok |-> FALSE, y |-> s.y, wins |-> Append(wins, s.win)]
            ELSE matvec_loop(A, x, s.y, i + 1, Append(wins, s.win))

\* the operand's rows compared with the matrix's rows
dimension_mismatch_rows(A, x) == A.shape[1] # x.shape[1]

\* the operand's rows are not the matrix's columns
dimension_mismatch(A, x) == A.shape[2] # x.shape[1]

\* y shaped like the operand
y_zeros_like_x(A, x) == zeros(<<x.shape[1], x.shape[2]>>)

\* y, all zeros
y_zeros(A, x) == zeros(<<A.shape[1], x.shape[2]>>)

matvec(A, other) ==
    LET x0 == other.arr
        x == IF ndim(x0) = 1 THEN [x0 EXCEPT !.shape = <<x0.shape[1], 1>>] ELSE x0
    IN IF dimension_mismatch(A, x)
       THEN [kind |-> "error", msg |-> "dimension mismatch", wins |-> <<>>]
       ELSE LET y0 == y_zeros(A, x)
                l == matvec_loop(A, x, y0.flat, 1, <<>>)
            IN IF ~l.ok
               THEN [kind |-> "error", msg |-> "operands do not fit the output", wins |-> l.wins]
               ELSE [kind |-> "dense",
                     arr |-> [shape |-> IF ndim(x0) = 1 THEN <<Prod(y0.shape)>> ELSE y0.shape,
                              flat |-> l.y, dtype |-> "i"],
                     matrix |-> other.matrix,
                     wins |-> l.wins]

\* ------------------------------------------------------------ tocoo
\* the mask without its test of the column
coo_mask_nocols(A, row, col) == row >= 0 /\ row < A.shape[1]

\* mask = (row >= 0) & (row < self.shape[0]) & (col < self.shape[1])
coo_mask(A, row, col) == row >= 0 /\ row < A.shape[1] /\ col < A.shape[2]

tocoo(A) ==
    LET num_data == len(A.data)
        len_data == A.data.shape[2]
        row(n) == ((n - 1) % len_data) - A.diags.flat[((n - 1) \div len_data) + 1]
        col(n) == (n - 1) % len_data
        mask(n) == coo_mask(A, row(n), col(n))
        kept == SelectSeq([n \in 1..(num_data * len_data) |-> n], mask)
    IN [kind |-> "coo",
        row |-> [j \in 1..Len(kept) |-> row(kept[j])],
        col |-> [j \in 1..Len(kept) |-> col(kept[j])],
        data |-> [j \in 1..Len(kept) |-> A.data.flat[kept[j]]],
        shape |-> A.shape]

\* ------------------------------------------------------------ matmat
matmat(A, other) ==
    IF isspmatrix(other)
    THEN IF A.shape[2] # other.shape[1]
         THEN [kind |-> "error", msg |-> "shape mismatch error", wins |-> <<>>]
         ELSE [kind |-> "delegated", lhs |-> tocoo(A), rhs |-> other]
    ELSE matvec(A, other)

\* spmatrix.dot: a dense vector goes to matvec, a 2-d operand to matmat
dot(A, other) ==
    IF ~isspmatrix(other) /\ ndim(other.arr) = 1 THEN matvec(A, other)
    ELSE matmat(A, other)

\* ------------------------------------------------------------ __mul__
\* self.data passed on as it is
scaled_shared(s, data) == data

\* other * self.data for a scalar other
scaled(s, data) == [data EXCEPT !.flat = [n \in 1..Len(data.flat) |-> s * data.flat[n]]]

mul(A, other) ==
    IF isscalarlike(other)
    THEN dia_matrix([tag |-> "tuple", items |-> <<scaled(other.arr.flat[1], A.data), A.diags>>],
                    Some(A.shape))
    ELSE dot(A, other)

\* ------------------------------------------------------------ _with_data
with_data(A, data, copy) ==
    dia_matrix([tag |-> "tuple", items |-> <<data, A.diags>>], Some(A.shape))

\* ------------------------------------------------------------ inputs
Fill(f, i, c) ==
    CASE f = "cols" -> c + 1
      [] f = "pos"  -> 10 * (i + 1) + c + 1
      [] f = "alt"  -> 5 * (i + 1) + 2 * c + 1
      [] OTHER      -> 0

Arr2(K, L, f) ==
    [shape |-> <<K, L>>,
     flat |-> [n \in 1..(K * L) |-> Fill(f, (n - 1) \div L, (n - 1) % L)],
     dtype |-> "i"]
Arr1(s) == [shape |-> <<Len(s)>>, flat |-> s, dtype |-> "i"]
Scalar(v) == [shape |-> <<>>, flat |-> <<v>>, dtype |-> "i"]
\* a float vector and a float scalar, in halves
FloatArr1(s) == [shape |-> <<Len(s)>>, flat |-> s, dtype |-> "d"]
FloatScalar(h) == [shape |-> <<>>, flat |-> <<h>>, dtype |-> "d"]

SeqsUpTo(S, n) == UNION {[1..m -> S] : m \in 0..n}

DataArgs ==
    {Arr2(K, L, "pos") : K \in 0..MaxK, L \in 0..MaxL}
    \cup {Arr1([c \in 1..L |-> Fill("pos", 0, c - 1)]) : L \in 0..MaxL}
    \cup {Scalar(d) : d \in Dims}
    \cup {[shape |-> <<1, 1, 1>>, flat |-> <<1>>, dtype |-> "i"]}

DiagArgs ==
    {Arr1(s) : s \in SeqsUpTo(Offsets, MaxK)}
    \cup {Scalar(k) : k \in Offsets}
    \cup {[shape |-> <<1, 1>>, flat |-> <<0>>, dtype |-> "i"]}
    \cup {FloatArr1(s) : s \in SeqsUpTo(1..3, 2) \ {<<>>}}
    \cup {FloatScalar(h) : h \in 1..2}

ShapeArgs == {None} \cup {Some(<<m, n>>) : m \in Dims, n \in Dims}

Tuple(items) == [tag |-> "tuple", items |-> items]

\* the docstring's matrix, the truncated strip and the empty matrix of the tests
DocExample == [arg1 |-> Tuple(<<Arr2(3, 4, "cols"), Arr1(<<0, -1, 2>>)>>), shape |-> Some(<<4, 4>>)]
TruncExample == [arg1 |-> Tuple(<<Arr1(<<5, 6>>), Arr1(<<0>>)>>), shape |-> Some(<<4, 4>>)]
EmptyExample == [arg1 |-> Tuple(<<Scalar(3), Scalar(4)>>), shape |-> None]
ScalarPairExample == [arg1 |-> Tuple(<<Scalar(5), Scalar(0)>>), shape |-> Some(<<3, 3>>)]

CtorArgs ==
    {[arg1 |-> Tuple(<<d, k>>), shape |-> s] : d \in DataArgs, k \in DiagArgs, s \in ShapeArgs}
    \cup {[arg1 |-> Tuple(<<Scalar(1)>>), shape |-> Some(<<1, 1>>)],
          [arg1 |-> Tuple(<<Scalar(1), Scalar(1), Scalar(1)>>), shape |-> Some(<<1, 1>>)]}
    \cup {DocExample, TruncExample, EmptyExample, ScalarPairExample}

XFill(f, c, p) ==
    CASE f = "ones" -> 1
      [] f = "pos"  -> 100 * (p + 1) + c + 1
      [] OTHER      -> 0

Dense(shape, f, m) ==
    [kind |-> "dense",
     arr |-> [shape |-> shape,
              flat |-> [n \in 1..Prod(shape) |->
                          IF Len(shape) = 2 THEN XFill(f, (n - 1) \div shape[2], (n - 1) % shape[2])
                          ELSE XFill(f, n - 1, 0)],
              dtype |-> "i"],
     matrix |-> m]

\* vectors of every length up to one more than the largest cols, two-column
\* arrays, a numpy matrix, and the vectors of the tests
DenseOperands ==
    {Dense(<<n>>, "pos", FALSE) : n \in 0..(MaxDim + 1)}
    \cup {Dense(<<n, 2>>, "pos", FALSE) : n \in 0..(MaxDim + 1)}
    \cup {Dense(<<n, 1>>, "pos", TRUE) : n \in {MaxDim}}
    \cup {Dense(<<4>>, "ones", FALSE), Dense(<<4>>, "zeros", FALSE), Dense(<<3>>, "ones", FALSE)}

ScalarOperands == {[kind |-> "dense", arr |-> Scalar(s), matrix |-> FALSE] : s \in {-1, 1, 2}}

SparseOperands == {[kind |-> "sparse", shape |-> <<n, 1>>] : n \in 0..(MaxDim + 1)}

Operands == DenseOperands \cup ScalarOperands \cup SparseOperands

WithDataArgs == {Arr2(K, L, "alt") : K \in 0..MaxK, L \in {1, MaxL}}

\* ------------------------------------------------------------ state
NoInstance == [data |-> zeros(<<0, 0>>), diags |-> zeros(<<0>>), shape |-> <<0, 0>>, none |-> TRUE]
NoCall == [op |-> "none"]
NoResult == [kind |-> "none"]

Init ==
    /\ self = NoInstance
    /\ call = NoCall
    /\ ret = NoResult

\* the object exists and no call is in progress
Idle == call.op = "idle" /\ ~("none" \in DOMAIN self)

\* A = dia_matrix(arg1, shape=shape)
Construct ==
    /\ call.op = "none"
    /\ \E a \in CtorArgs :
         LET r == dia_matrix(a.arg1, a.shape)
         IN /\ call' = [op |-> "__init__", arg1 |-> a.arg1, shape |-> a.shape]
            /\ ret' = r
            /\ self' = IF r.kind = "instance" THEN r.inst ELSE self

\* self.getnnz()
GetNnz ==
    /\ Idle
    /\ call' = [op |-> "getnnz"]
    /\ ret' = [kind |-> "int", val |-> getnnz(self)]
    /\ UNCHANGED self

\* dia_matrix(self, copy=copy): a new object from this one
FromDia ==
    /\ Idle
    /\ \E copy \in BOOLEAN :
         LET a == [tag |-> "dia", inst |-> self, copy |-> copy]
         IN /\ call' = [op |-> "__init__", arg1 |-> a, shape |-> None]
            /\ ret' = dia_matrix(a, None)
    /\ UNCHANGED self

\* self * other
Mul ==
    /\ Idle
    /\ \E other \in Operands :
         /\ call' = [op |-> "__mul__", other |-> other]
         /\ ret' = mul(self, other)
    /\ UNCHANGED self

\* self.matmat(other)
MatMat ==
    /\ Idle
    /\ \E other \in DenseOperands \cup SparseOperands :
         /\ call' = [op |-> "matmat", other |-> other]
         /\ ret' = matmat(self, other)
    /\ UNCHANGED self

\* self.tocoo()
ToCoo ==
    /\ Idle
    /\ call' = [op |-> "tocoo"]
    /\ ret' = tocoo(self)
    /\ UNCHANGED self

\* self._with_data(data, copy)
WithData ==
    /\ Idle
    /\ \E data \in WithDataArgs, copy \in BOOLEAN :
         /\ call' = [op |-> "_with_data", data |-> data, copy |-> copy]
         /\ ret' = with_data(self, data, copy)
    /\ UNCHANGED self

\* the caller is done with the result of the last call
Return ==
    /\ call.op \notin {"none", "idle"}
    /\ call' = [op |-> "idle"]
    /\ ret' = NoResult
    /\ UNCHANGED self

Next ==
    \/ Construct
    \/ Return
    \/ FromDia
    \/ GetNnz
    \/ Mul
    \/ MatMat
    \/ ToCoo
    \/ WithData

Spec == Init /\ [][Next]_vars
\* ================================================================ claims
\* What the element mapping of the format says, written without the code:
\* data[i][c] is the entry (c - offsets[i], c), live when it lies in the matrix.
Rows(A) == A.shape[1]
Cols(A) == A.shape[2]
NumDiags(A) == A.diags.shape[1]
Width(A) == A.data.shape[2]
Offset(A, i) == A.diags.flat[i]
Exists == ~("none" \in DOMAIN self)
Live(A, i, c) ==
    /\ c >= 0 /\ c < Width(A)
    /\ c - Offset(A, i) >= 0 /\ c - Offset(A, i) < Rows(A)
    /\ c < Cols(A)

\* the sum of data[i][c] * x[c][p] over the live entries of row r, diagonals i..K
RECURSIVE RowSum(_, _, _, _, _)
RowSum(A, xarr, r, p, i) ==
    IF i > NumDiags(A) THEN 0
    ELSE (IF Live(A, i, r + Offset(A, i))
          THEN At2(A.data, i - 1, r + Offset(A, i)) * At2(xarr, r + Offset(A, i), p)
          ELSE 0)
         + RowSum(A, xarr, r, p, i + 1)

\* the operand of the last call as a (cols, P) array
AsColumns(arr) == IF ndim(arr) = 1 THEN [arr EXCEPT !.shape = <<arr.shape[1], 1>>] ELSE arr

\* the last call multiplied self by a dense vector or matrix
DenseProductCall ==
    /\ call.op \in {"__mul__", "matmat"}
    /\ call.other.kind = "dense"
    /\ ndim(call.other.arr) >= 1

\* ... whose rows are the matrix's columns
FittingProductCall == DenseProductCall /\ call.other.arr.shape[1] = Cols(self)

\* the matrix has at least one row and one column
Proper(A) == Rows(A) >= 1 /\ Cols(A) >= 1

DocInstance == dia_matrix(DocExample.arg1, DocExample.shape).inst
TruncInstance == dia_matrix(TruncExample.arg1, TruncExample.shape).inst

\* the last call constructed from a pair (a, b)
PairCall == call.op = "__init__" /\ call.arg1.tag = "tuple" /\ Len(call.arg1.items) = 2

IsIntegerScalar(a) == ndim(a) = 0 /\ (a.dtype = "i" \/ a.flat[1] % 2 = 0)
BarePair(t) == IsIntegerScalar(t[1]) /\ IsIntegerScalar(t[2])

\* the fields a (data, diags) construction assembles before its format validation
Candidate(data, diags, shape) ==
    [data |-> atleast_2d(data), diags |-> atleast_1d(array_intc(diags)), shape |-> shape]

WellFormed(A) ==
    /\ ndim(A.diags) = 1
    /\ ndim(A.data) = 2
    /\ A.data.shape[1] = A.diags.shape[1]
    /\ Len(A.diags.flat) = A.diags.shape[1]
    /\ \A i, j \in 1..Len(A.diags.flat) : A.diags.flat[i] = A.diags.flat[j] => i = j

LiveTriples(A) ==
    {<<ic[2] - Offset(A, ic[1]), ic[2], At2(A.data, ic[1] - 1, ic[2])>> :
        ic \in {jc \in (1..NumDiags(A)) \X (0..(Width(A) - 1)) : Live(A, jc[1], jc[2])}}

IdealLength(A, k) == IF k >= 0 THEN Min2(Rows(A), Cols(A) - k) ELSE Min2(Rows(A) + k, Cols(A))

RECURSIVE FlooredSum(_, _)
FlooredSum(A, i) ==
    IF i > NumDiags(A) THEN 0
    ELSE Max2(0, IdealLength(A, Offset(A, i))) + FlooredSum(A, i + 1)

\* the operand of a product that is not a scalar, and its leading dimension
NonScalar(other) == other.kind = "sparse" \/ ndim(other.arr) >= 1
LeadingDim(other) == IF other.kind = "sparse" THEN other.shape[1] ELSE other.arr.shape[1]

ScalarProductCall == call.op = "__mul__" /\ call.other.kind = "dense" /\ ndim(call.other.arr) = 0

AllInRange(A) == \A i \in 1..NumDiags(A) : 0 - Rows(A) < Offset(A, i) /\ Offset(A, i) < Cols(A)
IdealEnd(A, i) == Min2(Rows(A) + Offset(A, i), Cols(A))
Untruncated(A) == \A i \in 1..NumDiags(A) : Width(A) >= IdealEnd(A, i)

\* getnnz of the matrices _with_data makes of self: the same shape and offsets,
\* another strip width
WidthIndependent ==
    \A d \in WithDataArgs :
        LET r == with_data(self, d, TRUE)
        IN r.kind = "instance" => getnnz(r.inst) = ret.val

\* C1: multiplying by a dense operand with cols rows returns y of shape
\* (rows, P), y[r][p] being the sum of data[i][c] * x[c][p] over the live
\* entries (c - offsets[i], c) of row r, whatever the offsets and the strip
\* width; the docstring's matrix times [1,1,1,1] is [4,7,5,7].  Stated for the
\* matrices with at least one row and one column.
C1_ProductIsSumOverLiveEntries ==
    (FittingProductCall /\ Proper(self)) =>
        LET x == AsColumns(call.other.arr)
            P == x.shape[2]
        IN /\ ret.kind = "dense"
           /\ ret.arr.shape = (IF ndim(call.other.arr) = 1 THEN <<Rows(self)>> ELSE <<Rows(self), P>>)
           /\ Len(ret.arr.flat) = Rows(self) * P
           /\ \A r \in 0..(Rows(self) - 1), p \in 0..(P - 1) :
                ret.arr.flat[r * P + p + 1] = RowSum(self, x, r, p, 1)
           /\ (self = DocInstance /\ call.other.arr.flat = <<1, 1, 1, 1>>)
                => ret.arr.flat = <<4, 7, 5, 7>>

\* C2: tocoo exports exactly the live entries: (c - offsets[i], c, data[i][c])
\* for 0 <= c < L inside the matrix, every live position once, nothing from
\* columns >= L; the truncated strip [5,6] exports (0,0)=5 and (1,1)=6 only.
C2_TocooExportsLiveEntries ==
    call.op = "tocoo" =>
        LET n == Len(ret.row)
            T == {<<ret.row[j], ret.col[j], ret.data[j]>> : j \in 1..n}
        IN /\ Len(ret.col) = n /\ Len(ret.data) = n
           /\ T = LiveTriples(self)
           /\ \A j1, j2 \in 1..n :
                (ret.row[j1] = ret.row[j2] /\ ret.col[j1] = ret.col[j2]) => j1 = j2
           /\ \A j \in 1..n : ret.col[j] < Width(self)
           /\ self = TruncInstance => T = {<<0, 0, 5>>, <<1, 1, 6>>}

C2_Witness ==
    /\ call.op = "tocoo"
    /\ self = TruncInstance
    /\ Len(ret.row) = 2

\* C3: getnnz is the sum over the offsets k of max(0, ideal length), the ideal
\* length being min(rows, cols - k) for k >= 0 and min(rows + k, cols) for
\* k < 0: never negative; 9 for the docstring's matrix.  Stated for the
\* matrices with at least one row and one column.
C3_GetnnzFlooredAtZero ==
    (call.op = "getnnz" /\ Proper(self)) =>
        /\ ret.val = FlooredSum(self, 1)
        /\ ret.val >= 0
        /\ self = DocInstance => ret.val = 9

\* C4: every construction ends in the format check: it fails when offsets is
\* not rank 1, data not rank 2, the rows of data are not as many as the
\* offsets, or an offset is repeated; so every instance there is, those of
\* scalar multiplication and _with_data too, is well formed.
C4_ValidationOnEveryPath ==
    /\ Exists => WellFormed(self)
    /\ ret.kind = "instance" => WellFormed(ret.inst)
    /\ (PairCall /\ ~BarePair(call.arg1.items) /\ call.shape.given)
         => (ret.kind = "instance"
               <=> WellFormed(Candidate(call.arg1.items[1], call.arg1.items[2], call.shape.val)))
    /\ call.op = "_with_data"
         => (ret.kind = "instance" <=> WellFormed(Candidate(call.data, self.diags, self.shape)))
    /\ (call.op = "__init__" /\ call.arg1.tag = "dia") => ret.kind = "instance"

C4_Witness ==
    /\ PairCall
    /\ call.arg1.items[2] = Arr1(<<0, 0>>)
    /\ call.arg1.items[1].shape = <<2, 3>>
    /\ call.shape.given
    /\ ret = Error("offset array contains duplicate values")

\* C5: multiplying by a vector, a dense matrix or a sparse matrix whose leading
\* dimension is not cols fails, before any pass of the loop and with no
\* result, and leaves the matrix as it was.
C5_MismatchFailsFirst ==
    [][(/\ call'.op \in {"__mul__", "matmat"}
        /\ NonScalar(call'.other)
        /\ LeadingDim(call'.other) # Cols(self))
       => (/\ ret'.kind = "error"
           /\ ret'.wins = <<>>
           /\ ~("arr" \in DOMAIN ret')
           /\ self' = self)]_vars

C5_Witness ==
    /\ DenseProductCall
    /\ call.op = "__mul__"
    /\ self = DocInstance
    /\ call.other.arr.shape = <<3>>
    /\ ret.kind = "error"
    /\ ret.msg = "dimension mismatch"

\* C6: a pair (data, offsets) with a shape argument takes the data/offsets
\* path whatever data and offsets are, scalars included: data becomes a 2-d
\* buffer, offsets a 1-d integer buffer and the shape is the shape argument;
\* without a shape argument a pair that is not a bare (rows, cols) is refused
\* for its missing shape.  Two integer scalars given with a shape argument are
\* not taken for a shape request that ignores the argument.
C6_PairTakesDataPath ==
    PairCall =>
        IF call.shape.given
        THEN ret.kind = "instance" =>
               ret.inst = Candidate(call.arg1.items[1], call.arg1.items[2], call.shape.val)
        ELSE ~BarePair(call.arg1.items) => ret = Error("expected a shape argument")

\* C7: multiplying by a scalar s returns a new instance of the same shape and
\* the same offsets in the same order, whose data is s times the data at
\* every position of the buffer; the matrix itself is unchanged, and s = 1
\* gives the same values and offsets.
C7_ScalarProduct ==
    [][ScalarProductCall' =>
         LET s == call'.other.arr.flat[1]
         IN /\ ret'.kind = "instance"
            /\ ret'.inst.shape = self.shape
            /\ ret'.inst.diags = self.diags
            /\ ret'.inst.data.shape = self.data.shape
            /\ Len(ret'.inst.data.flat) = Len(self.data.flat)
            /\ \A n \in 1..Len(self.data.flat) : ret'.inst.data.flat[n] = s * self.data.flat[n]
            /\ self' = self
            /\ s = 1 => ret'.inst = self]_vars

C7_Witness ==
    /\ ScalarProductCall
    /\ call.other.arr.flat[1] = 2
    /\ self = DocInstance
    /\ ret.kind = "instance"
    /\ ret.inst.data.flat = <<2, 4, 6, 8, 2, 4, 6, 8, 2, 4, 6, 8>>

\* C8: a shape tuple (rows, cols) constructs an instance of that shape with no
\* offsets and a data buffer of no rows; of such an instance getnnz is 0,
\* tocoo exports nothing and the product with a vector of length cols is the
\* zero vector of length rows.
C8_EmptyMatrix ==
    /\ (PairCall /\ ~call.shape.given /\ BarePair(call.arg1.items)
          /\ call.arg1.items[1].flat[1] >= 0 /\ call.arg1.items[2].flat[1] >= 0)
         => /\ ret.kind = "instance"
            /\ ret.inst.diags.shape = <<0>> /\ ret.inst.diags.flat = <<>>
            /\ ret.inst.data.shape[1] = 0 /\ ret.inst.data.flat = <<>>
            /\ ret.inst.shape = <<IntOf(call.arg1.items[1]), IntOf(call.arg1.items[2])>>
    /\ (Exists /\ NumDiags(self) = 0 /\ self.data.shape[1] = 0)
         => /\ call.op = "getnnz" => ret.val = 0
            /\ call.op = "tocoo" => ret.row = <<>> /\ ret.col = <<>> /\ ret.data = <<>>
            /\ FittingProductCall =>
                 /\ ret.kind = "dense"
                 /\ ret.arr.shape = (IF ndim(call.other.arr) = 1 THEN <<Rows(self)>>
                                     ELSE <<Rows(self), call.other.arr.shape[2]>>)
                 /\ Len(ret.arr.flat) = Prod(ret.arr.shape)
                 /\ \A n \in 1..Len(ret.arr.flat) : ret.arr.flat[n] = 0

C8_Witness ==
    /\ self.shape = <<3, 4>>
    /\ NumDiags(self) = 0
    /\ DenseProductCall
    /\ call.op = "__mul__"
    /\ call.other.arr = [shape |-> <<4>>, flat |-> <<0, 0, 0, 0>>, dtype |-> "i"]
    /\ ret.kind = "dense"
    /\ ret.arr = [shape |-> <<3>>, flat |-> <<0, 0, 0>>, dtype |-> "i"]

\* C9: in the multiplication loop a diagonal whose column window is empty
\* (j_end <= j_start) is skipped: nothing of data or x is multiplied, no row
\* of y is written and the multiplication succeeds; the windows of the other
\* diagonals have 0 <= j_start < j_end <= min(cols, L), 0 <= i_start < i_end
\* <= rows and equal lengths.  Stated for the matrices with at least one row
\* and one column.
C9_EmptyWindowIsSkipped ==
    (FittingProductCall /\ Proper(self)) =>
        /\ ret.kind = "dense"
        /\ \A n \in 1..Len(ret.wins) :
             LET w == ret.wins[n]
             IN IF w.j_end > w.j_start
                THEN /\ 0 <= w.j_start /\ w.j_end <= Min2(Cols(self), Width(self))
                     /\ 0 <= w.i_start /\ w.i_start < w.i_end /\ w.i_end <= Rows(self)
                     /\ w.i_end - w.i_start = w.j_end - w.j_start
                ELSE w.fits /\ w.nmul = 0 /\ w.tlen = 0

====
